---- MODULE Spec2Model ----
(***************************************************************************)
(* Model of the plugin host-communication contract of delve-registry:      *)
(*   - the JSON-over-TCP PluginServer (Go source appended to               *)
(*     github-dashboard/releases/v1.0.0/component.js) driving the GitHub   *)
(*     dashboard Plugin (github-dashboard/main.go);                        *)
(*   - the client-side resource managers (DelvePluginSDK, ResourceManager) *)
(*     and the plugin UIs that register resources with them.               *)
(***************************************************************************)
EXTENDS Integers, Sequences, FiniteSets, TLC

\* ------------------------------------------------------------------ bounds
\* Lines read by the server, over all connections.
MaxLines == 3
\* Component instances created (mounts of the plugin's custom element).
MaxMounts == 2
\* Timer handles the browser hands out.
MaxTimers == 3
\* Calls of cleanup() made by the host.
MaxCleanups == 2
\* Listeners a client has registered at one time.
MaxListeners == 2

\* ------------------------------------------------------------- server side
Conns == {"c1", "c2"}

Methods == {"health_check", "execute_action", "get_info", "initialize", "start", "stop"}
UnknownMethods == {"restart"}
StateChanging == {"initialize", "start", "stop"}

\* Plugin.Initialize: p.config.RefreshInterval = 300
DefaultRefreshInterval == 300

\* Inputs of a config mapping.  token: the github_token member is absent, has
\* the wrong JSON type, is "" or is a real token; interval / repos: absent
\* (<<>>) or a one-element sequence holding refresh_interval / the number of
\* repositories listed.
MkConfig(t, i, r) == [token |-> t, interval |-> i, repos |-> r]
ConfigInputs ==
    { MkConfig("absent", <<>>, <<>>),     \* {}
      MkConfig("tok", <<>>, <<>>),        \* only the token
      MkConfig("tok", <<60>>, <<2>>),     \* a full configuration
      MkConfig("", <<0>>, <<1>>),         \* an empty token
      MkConfig("badtype", <<0>>, <<1>>) } \* a token that is not a string
\* Inputs of data["check_name"]: the member is absent, is not a JSON string,
\* or is the string "x" or "token_validity".
CheckNames == {"absent", "notstring", "x", "token_validity"}

MkLine(j, m, k, t, i, r, n, d) ==
    [json |-> j, method |-> m, cfgKind |-> k, token |-> t, interval |-> i,
     repos |-> r, check |-> n, payload |-> d]

NoLine == MkLine("none", "", "absent", "absent", <<>>, <<>>, "", "absent")

\* json: "empty" (a blank line), "bad" (text json.Unmarshal rejects),
\* "oversize" (longer than the scanner's buffer), "ok" (a Request).
RawLines == {MkLine(j, "", "absent", "absent", <<>>, <<>>, "", "absent") : j \in {"empty", "bad", "oversize"}}
SimpleLines ==
    {MkLine("ok", m, "absent", "absent", <<>>, <<>>, "", "absent") :
        m \in {"get_info", "start", "stop"} \cup UnknownMethods}
\* execute_action: data["data"] is absent or holds the JSON value [1]
Payloads == {"absent", "[1]"}
ExecLines ==
    {MkLine("ok", "execute_action", "absent", "absent", <<>>, <<>>, "", d) : d \in Payloads}
InitLines ==
    {MkLine("ok", "initialize", k, "absent", <<>>, <<>>, "", "absent") : k \in {"absent", "notmap"}}
    \cup {MkLine("ok", "initialize", "map", k.token, k.interval, k.repos, "", "absent") :
            k \in ConfigInputs}
HealthLines ==
    {MkLine("ok", "health_check", "absent", "absent", <<>>, <<>>, n, "absent") : n \in CheckNames}
Lines == RawLines \cup SimpleLines \cup ExecLines \cup InitLines \cup HealthLines

\* Response{Success, Result, Error}; error is a text in pieces (format string,
\* argument), << >> being the empty string that omitempty drops.
NoResult == [kind |-> "none", healthy |-> FALSE, message |-> <<>>, n |-> 0]
Response(s, e, r) == [success |-> s, error |-> e, result |-> r]
Ok == Response(TRUE, <<>>, NoResult)
\* mutant: a failure is reported without its error text
FailSilent(e) == Response(FALSE, <<>>, NoResult)
Fail(e) == Response(FALSE, e, NoResult)

VARIABLES
    config,     \* Plugin.config: [token, interval, repos]
    client,     \* Plugin.client /= nil
    pending,    \* backgroundRefresh goroutines spawned, ticker not yet created
    loops,      \* backgroundRefresh goroutines inside their select loop
    crashed,    \* the process died of a panic
    lifecycle,  \* history: the lifecycle call that last returned success
    pc,         \* per connection: "new", "scan", "read", "call", "validate", "closed"
    cur,        \* per connection: the request being handled (NoLine if none)
    reads,      \* per connection: lines the scanner has returned
    emptyIdx,   \* per connection: which of those lines were blank
    out,        \* per connection: for each response written, the line it answers
    last,       \* per connection: the response written last
    server,     \* the PluginServer: where Serve is (pc), s.listener, whether
                \* s.ctx is cancelled, where a Shutdown call is
    ui,         \* which front end is loaded: "none", "client", "clientio", "clientws",
                \* "clientlate",
                \* "sample",
                \* "dashboard", "linter"
    sdk,        \* the manager object (DelvePluginSDK or ResourceManager)
    browser,    \* the browser: timers, attached listeners, sockets, aborted fetches
    comp,       \* the component instances of the loaded plugin UI
    hist        \* history: cleanup() calls, handlers run, what cleanup() released,
                \* the listeners the client holds, the handlers it registered again

srvVars == <<config, client, pending, loops, crashed, lifecycle, pc, cur, reads, emptyIdx, out, last,
             server>>
uiVars == <<ui, sdk, browser, comp, hist>>
vars == <<config, client, pending, loops, crashed, lifecycle, pc, cur, reads, emptyIdx, out, last,
          server, ui, sdk, browser, comp, hist>>
pluginVars == <<config, client, pending, loops, crashed>>
connVars == <<pc, cur, reads, emptyIdx, out, last>>

TotalReads == reads["c1"] + reads["c2"]

\* ---------------------------------------------------------------- handlers

\* handleConnection: if line == "" { continue }
SkipsLine(line) == line.json = "empty"

\* mutant: the error of json.Unmarshal is ignored
DecodeFailsNever(line) == FALSE

\* handleConnection: json.Unmarshal([]byte(line), &req) fails
DecodeFails(line) == line.json = "bad"

DecodeErrorResponse == Fail(<<"invalid request format: ", "json syntax error">>)

\* mutant: the error text leaves the method name out
UnknownMethodNoName(m) == Fail(<<"unknown method">>)

\* handleRequest, default case
UnknownMethodResponse(m) == Fail(<<"unknown method: ", m>>)

\* mutant: the type assertion's ok is not checked
ConfigUnchecked(line) == TRUE

\* handleInitialize: config, ok := req.Data["config"].(map[string]interface{})
ConfigOk(line) == line.cfgKind = "map"

ConfigRequiredResponse == Fail(<<"config is required">>)

\* handleRequest: does the request reach the Plugin Implementation
ReachesPlugin(line) ==
    /\ line.method \in Methods
    /\ line.method = "initialize" => ConfigOk(line)

\* handleRequest for the requests answered without the Plugin Implementation
ImmediateResponse(line) ==
    IF line.method \notin Methods THEN UnknownMethodResponse(line.method)
    ELSE ConfigRequiredResponse

\* mutant: the response is written ahead of the earlier ones
EncodeFront(o, r) == <<r>> \o o

\* encoder.Encode(response): the response follows the earlier ones
Encode(o, r) == Append(o, r)

Respond(c, r) ==
    /\ out' = [out EXCEPT ![c] = Encode(@, reads[c])]
    /\ last' = [last EXCEPT ![c] = r]

\* json.Unmarshal(configBytes, &p.config): members present and of the right
\* type overwrite the field, the others leave it as it was
Unmarshal(line, cfg) ==
    [token |-> IF line.token \in {"absent", "badtype"} THEN cfg.token ELSE line.token,
     interval |-> IF line.interval = <<>> THEN cfg.interval ELSE line.interval[1],
     repos |-> IF line.repos = <<>> THEN cfg.repos ELSE line.repos[1]]

UnmarshalFails(line) == line.token = "badtype"

\* Plugin.Initialize: if p.config.GitHubToken == ""
TokenMissing(cfg) == cfg.token = ""

\* Plugin.Initialize: if p.config.RefreshInterval <= 0 { ... = 300 }
WithDefaultInterval(cfg) ==
    [cfg EXCEPT !.interval = IF @ <= 0 THEN DefaultRefreshInterval ELSE @]

\* Plugin.GetInfo
GetInfo(cfg) == [kind |-> "info", healthy |-> FALSE, message |-> <<"running">>, n |-> cfg.repos]

\* handleExecuteAction: data, _ := req.Data["data"]; dataBytes, _ :=
\* json.Marshal(data): a missing member is a nil interface, encoded as null.
\* A JSON text is written in pieces, like an error text.
ExecuteBody(line) == IF line.payload = "absent" THEN <<"null">> ELSE <<line.payload>>

\* Plugin.HandleRequest: the error and the bytes it returns.  Of the paths
\* the switch knows only the two exact ones are told apart here; any other
\* pair ends in the default case.
HandleRequest(method, path, body) ==
    IF (method = "GET" /\ path = "/repositories") \/ (method = "POST" /\ path = "/refresh")
    THEN [err |-> <<>>, bytes |-> "[]"]
    ELSE [err |-> <<"endpoint not found: ", method, " ", path>>, bytes |-> ""]

\* mutant: the plugin's error is dropped and the request reported as done
ExecuteResponseDropsError(r) ==
    Response(TRUE, <<>>, [kind |-> "result", healthy |-> FALSE, message |-> <<r.bytes>>, n |-> 0])

\* handleExecuteAction: err != nil gives Response{Success: false, Error:
\* err.Error()}; otherwise the bytes are decoded into result["result"]
ExecuteResponse(r) ==
    IF r.err /= <<>>
    THEN Fail(r.err)
    ELSE Response(TRUE, <<>>, [kind |-> "result", healthy |-> FALSE, message |-> <<r.bytes>>, n |-> 0])

\* handleHealthCheck: checkName, _ := req.Data["check_name"].(string); a
\* failed type assertion leaves the zero value ""
CheckNameOf(line) == IF line.check \in {"absent", "notstring"} THEN "" ELSE line.check

\* Plugin.HealthCheck with a client: the errors it can return (<< >> is nil).
\* token_validity asks the network; any other name here is unknown.
HealthCheck(name) ==
    IF name = "token_validity"
    THEN {<<>>, <<"invalid GitHub token">>}
    ELSE {<<"unknown health check: ", name>>}

\* mutant: a failed check is reported as healthy, with the error as message
UnhealthyReportedHealthy(e) == [kind |-> "health", healthy |-> TRUE, message |-> e, n |-> 0]

\* handleHealthCheck: the two Result mappings
Healthy == [kind |-> "health", healthy |-> TRUE, message |-> <<"OK">>, n |-> 0]
Unhealthy(e) == [kind |-> "health", healthy |-> FALSE, message |-> e, n |-> 0]

\* -------------------------------------------------------------------- Init
InitServer ==
    /\ config = [token |-> "", interval |-> 0, repos |-> 0]
    /\ client = FALSE
    /\ pending = 0
    /\ loops = 0
    /\ crashed = FALSE
    /\ lifecycle = "Uninitialized"
    /\ pc = [c \in Conns |-> "new"]
    /\ cur = [c \in Conns |-> NoLine]
    /\ reads = [c \in Conns |-> 0]
    /\ emptyIdx = [c \in Conns |-> {}]
    /\ out = [c \in Conns |-> <<>>]
    /\ last = [c \in Conns |-> Ok]
    /\ server = [pc |-> "new", listener |-> "nil", cancelled |-> FALSE, shutdown |-> "idle"]

\* ----------------------------------------------------------------- actions

\* Serve's select: case <-s.ctx.Done() returns nil, default goes (back) into
\* s.listener.Accept().  The select is taken together with the step that
\* leads to it.
Select(srv) == [srv EXCEPT !.pc = IF srv.cancelled THEN "returned" ELSE "accept"]

\* Serve: net.Listen; on an error Serve returns it, otherwise the loop starts
ServeListen(ok) ==
    /\ ~crashed
    /\ server.pc = "new"
    /\ server' = IF ok THEN Select([server EXCEPT !.listener = "open"])
                       ELSE [server EXCEPT !.pc = "failed"]
    /\ UNCHANGED <<pluginVars, lifecycle, connVars, uiVars>>

\* Serve: conn := s.listener.Accept(); go s.handleConnection(conn)
Accept(c) ==
    /\ ~crashed
    /\ server.pc = "accept"
    /\ server.listener = "open"
    /\ pc[c] = "new"
    /\ pc' = [pc EXCEPT ![c] = "scan"]
    /\ server' = Select(server)
    /\ UNCHANGED <<pluginVars, lifecycle, cur, reads, emptyIdx, out, last>>
    /\ UNCHANGED uiVars

\* Serve: Accept on the closed listener returns an error; Serve returns nil
\* if s.ctx.Err() != nil and goes round the loop otherwise
AcceptFails ==
    /\ ~crashed
    /\ server.pc = "accept"
    /\ server.listener = "closed"
    /\ server' = Select(server)
    /\ UNCHANGED <<pluginVars, lifecycle, connVars, uiVars>>

\* mutant: Shutdown cancels the context and leaves the listener open
ShutdownCloseSkipped ==
    /\ ~crashed
    /\ server.shutdown = "cancelled"
    /\ server' = [server EXCEPT !.shutdown = "done"]
    /\ UNCHANGED <<pluginVars, lifecycle, connVars, uiVars>>

\* Shutdown: s.cancel()
ShutdownCancel ==
    /\ ~crashed
    /\ server.shutdown = "idle"
    /\ server' = [server EXCEPT !.shutdown = "cancelled", !.cancelled = TRUE]
    /\ UNCHANGED <<pluginVars, lifecycle, connVars, uiVars>>

\* Shutdown: if s.listener != nil { s.listener.Close() }
ShutdownClose ==
    /\ ~crashed
    /\ server.shutdown = "cancelled"
    /\ server' = [server EXCEPT !.shutdown = "done",
                                !.listener = IF @ = "nil" THEN "nil" ELSE "closed"]
    /\ UNCHANGED <<pluginVars, lifecycle, connVars, uiVars>>

\* the response is written and the loop goes back to scanner.Scan()
Return(c, r) ==
    /\ Respond(c, r)
    /\ pc' = [pc EXCEPT ![c] = "scan"]
    /\ cur' = [cur EXCEPT ![c] = NoLine]

\* handleConnection: scanner.Scan() returns the next line, or false on a line
\* longer than the scanner's buffer (the loop ends, defer conn.Close())
Scan(c, line) ==
    /\ ~crashed
    /\ pc[c] = "scan"
    /\ TotalReads < MaxLines
    /\ IF line.json = "oversize"
       THEN /\ pc' = [pc EXCEPT ![c] = "closed"]
            /\ UNCHANGED <<cur, reads, emptyIdx>>
       ELSE /\ pc' = [pc EXCEPT ![c] = "read"]
            /\ cur' = [cur EXCEPT ![c] = line]
            /\ reads' = [reads EXCEPT ![c] = @ + 1]
            /\ emptyIdx' = IF line.json = "empty"
                           THEN [emptyIdx EXCEPT ![c] = @ \cup {reads[c] + 1}]
                           ELSE emptyIdx
    /\ UNCHANGED <<pluginVars, lifecycle, out, last>>
    /\ UNCHANGED <<server, uiVars>>

\* mutant: a request is dispatched only while no other connection is inside
\* the Plugin Implementation (one lock around every plugin call)
HandleUnderLock(c) ==
    /\ ~crashed
    /\ pc[c] = "read"
    /\ \A d \in Conns \ {c} : pc[d] \notin {"call", "validate"}
    /\ IF SkipsLine(cur[c])
       THEN /\ pc' = [pc EXCEPT ![c] = "scan"]
            /\ cur' = [cur EXCEPT ![c] = NoLine]
            /\ UNCHANGED <<out, last>>
       ELSE IF DecodeFails(cur[c])
       THEN Return(c, DecodeErrorResponse)
       ELSE IF ReachesPlugin(cur[c])
       THEN /\ pc' = [pc EXCEPT ![c] = "call"]
            /\ UNCHANGED <<cur, out, last>>
       ELSE Return(c, ImmediateResponse(cur[c]))
    /\ UNCHANGED <<reads, emptyIdx>>
    /\ UNCHANGED <<pluginVars, lifecycle>>
    /\ UNCHANGED <<server, uiVars>>

\* handleConnection: the loop body for the line read, up to the call into the
\* Plugin Implementation, or up to the response when there is no such call
Handle(c) ==
    /\ ~crashed
    /\ pc[c] = "read"
    /\ IF SkipsLine(cur[c])
       THEN /\ pc' = [pc EXCEPT ![c] = "scan"]
            /\ cur' = [cur EXCEPT ![c] = NoLine]
            /\ UNCHANGED <<out, last>>
       ELSE IF DecodeFails(cur[c])
       THEN Return(c, DecodeErrorResponse)
       ELSE IF ReachesPlugin(cur[c])
       THEN /\ pc' = [pc EXCEPT ![c] = "call"]
            /\ UNCHANGED <<cur, out, last>>
       ELSE Return(c, ImmediateResponse(cur[c]))
    /\ UNCHANGED <<reads, emptyIdx>>
    /\ UNCHANGED <<pluginVars, lifecycle>>
    /\ UNCHANGED <<server, uiVars>>

\* the peer closes the connection: scanner.Scan() returns false
PeerClose(c) ==
    /\ ~crashed
    /\ pc[c] = "scan"
    /\ pc' = [pc EXCEPT ![c] = "closed"]
    /\ UNCHANGED <<pluginVars, lifecycle, cur, reads, emptyIdx, out, last>>
    /\ UNCHANGED <<server, uiVars>>

\* mutant: the plugin's error is replaced by a text of the handler's own
LifecycleResponseWrapped(err) == IF err /= <<>> THEN Fail(<<"plugin call failed">>) ELSE Ok

\* handleInitialize, handleStart, handleStop: err != nil gives
\* Response{Success: false, Error: err.Error()}, otherwise Response{Success: true}
LifecycleResponse(err) == IF err /= <<>> THEN Fail(err) ELSE Ok

\* Plugin.Initialize: the error of json.Unmarshal, wrapped
UnmarshalError(line) ==
    IF UnmarshalFails(line) THEN <<"failed to unmarshal config: ", "json type error">> ELSE <<>>

\* Plugin.Initialize: the error of the token check
TokenError(cfg) == IF TokenMissing(cfg) THEN <<"github_token is required">> ELSE <<>>

\* handleInitialize -> Plugin.Initialize, first half: the mapping is marshalled
\* and unmarshalled into p.config; a type error returns
InitializeUnmarshal(c) ==
    /\ ~crashed
    /\ pc[c] = "call"
    /\ cur[c].method = "initialize"
    /\ config' = Unmarshal(cur[c], config)
    /\ IF UnmarshalError(cur[c]) /= <<>>
       THEN Return(c, LifecycleResponse(UnmarshalError(cur[c])))
       ELSE /\ pc' = [pc EXCEPT ![c] = "validate"]
            /\ UNCHANGED <<cur, out, last>>
    /\ UNCHANGED <<client, pending, loops, crashed, lifecycle, reads, emptyIdx>>
    /\ UNCHANGED <<server, uiVars>>

\* Plugin.Initialize, second half (token check, default interval, client),
\* and the rest of handleInitialize
InitializeValidate(c) ==
    /\ ~crashed
    /\ pc[c] = "validate"
    /\ Return(c, LifecycleResponse(TokenError(config)))
    /\ IF TokenError(config) /= <<>>
       THEN UNCHANGED <<config, client, lifecycle>>
       ELSE /\ config' = WithDefaultInterval(config)
            /\ client' = TRUE
            /\ lifecycle' = "Initialized"
    /\ UNCHANGED <<pending, loops, crashed, reads, emptyIdx>>
    /\ UNCHANGED <<server, uiVars>>

\* mutant: Start returns nil without spawning backgroundRefresh
StartSpawnsNothing(c) ==
    /\ ~crashed
    /\ pc[c] = "call"
    /\ cur[c].method = "start"
    /\ lifecycle' = "Running"
    /\ Return(c, LifecycleResponse(<<>>))
    /\ UNCHANGED <<config, client, pending, loops, crashed, reads, emptyIdx>>
    /\ UNCHANGED <<server, uiVars>>

\* handleStart -> Plugin.Start: go p.backgroundRefresh(ctx); return nil
Start(c) ==
    /\ ~crashed
    /\ pc[c] = "call"
    /\ cur[c].method = "start"
    /\ pending' = pending + 1
    /\ lifecycle' = "Running"
    /\ Return(c, LifecycleResponse(<<>>))
    /\ UNCHANGED <<config, client, loops, crashed, reads, emptyIdx>>
    /\ UNCHANGED <<server, uiVars>>

\* handleStop -> Plugin.Stop: return nil
Stop(c) ==
    /\ ~crashed
    /\ pc[c] = "call"
    /\ cur[c].method = "stop"
    /\ lifecycle' = "Stopped"
    /\ Return(c, LifecycleResponse(<<>>))
    /\ UNCHANGED <<pluginVars, reads, emptyIdx>>
    /\ UNCHANGED <<server, uiVars>>

\* mutant: get_info is refused until an Initialize has created the client
HandleGetInfoNeedsClient(c) ==
    /\ ~crashed
    /\ pc[c] = "call"
    /\ cur[c].method = "get_info"
    /\ Return(c, IF client THEN Response(TRUE, <<>>, GetInfo(config))
                 ELSE Fail(<<"plugin not initialized">>))
    /\ UNCHANGED <<pluginVars, lifecycle, reads, emptyIdx>>
    /\ UNCHANGED <<server, uiVars>>

\* handleGetInfo -> Plugin.GetInfo
HandleGetInfo(c) ==
    /\ ~crashed
    /\ pc[c] = "call"
    /\ cur[c].method = "get_info"
    /\ Return(c, Response(TRUE, <<>>, GetInfo(config)))
    /\ UNCHANGED <<pluginVars, lifecycle, reads, emptyIdx>>
    /\ UNCHANGED <<server, uiVars>>

\* handleExecuteAction -> Plugin.HandleRequest("POST", "/execute", body): no
\* case of the switch matches, the default returns "endpoint not found"
HandleExecuteAction(c) ==
    /\ ~crashed
    /\ pc[c] = "call"
    /\ cur[c].method = "execute_action"
    /\ Return(c, ExecuteResponse(HandleRequest("POST", "/execute", ExecuteBody(cur[c]))))
    /\ UNCHANGED <<pluginVars, lifecycle, reads, emptyIdx>>
    /\ UNCHANGED <<server, uiVars>>

\* handleHealthCheck -> Plugin.HealthCheck.  token_validity calls
\* p.client.Do: a nil client panics, otherwise the network decides.
HandleHealthCheck(c) ==
    /\ ~crashed
    /\ pc[c] = "call"
    /\ cur[c].method = "health_check"
    /\ IF CheckNameOf(cur[c]) = "token_validity" /\ ~client
       THEN /\ crashed' = TRUE
            /\ UNCHANGED <<config, client, pending, loops, pc, cur, out, last>>
       ELSE /\ \E e \in HealthCheck(CheckNameOf(cur[c])) :
                  Return(c, Response(TRUE, <<>>, IF e = <<>> THEN Healthy ELSE Unhealthy(e)))
            /\ UNCHANGED pluginVars
    /\ UNCHANGED <<lifecycle, reads, emptyIdx>>
    /\ UNCHANGED <<server, uiVars>>

\* backgroundRefresh: time.NewTicker panics on a non-positive duration;
\* otherwise the goroutine enters its loop
RefreshBegin ==
    /\ ~crashed
    /\ pending > 0
    /\ pending' = pending - 1
    /\ IF config.interval <= 0
       THEN crashed' = TRUE /\ UNCHANGED loops
       ELSE loops' = loops + 1 /\ UNCHANGED crashed
    /\ UNCHANGED <<config, client, lifecycle, connVars>>
    /\ UNCHANGED <<server, uiVars>>

\* backgroundRefresh: case <-ctx.Done(): return (ctx is the s.ctx that
\* handleStart passed to Start)
RefreshEnd ==
    /\ ~crashed
    /\ loops > 0
    /\ server.cancelled
    /\ loops' = loops - 1
    /\ UNCHANGED <<config, client, pending, crashed, lifecycle, connVars>>
    /\ UNCHANGED <<server, uiVars>>

\* ============================================================ client side
\* The manager object, the browser's timers and the plugin UIs.  JavaScript is
\* single-threaded: every action below is one macrotask run to completion.

Instances == 1..MaxMounts

\* GitHubDashboardComponent.setup: config.refreshInterval
DashRefreshInterval == 300

\* A cleanup handler: what it does when called, and the component instance
\* whose closure it is (0 for the handlers of the test client).
Handler(k, i) == [kind |-> k, inst |-> i]
TestHandlers == {Handler(k, 0) : k \in {"plain", "throws", "reenter"}}
\* A handler that registers resources when it runs, i.e. during cleanup():
\* a timer, a listener, a socket, a fetch and another handler ("late").
LateHandlers == {Handler("registers", 0)}

\* The listeners a client attaches (one target, one handler function): the
\* event and the capture option.  The WebSockets and the fetches it starts.
Listeners == [event : {"click"}, capture : BOOLEAN]
Sockets == {"ws1", "ws2"}
\* websocket.close(1000, 'Plugin shutting down')
NormalClosure == 1000
Fetches == {"f1", "f2"}
NotAFunction == Handler("notfn", 0)

\* The editor texts of the JSON linter: nothing, a JSON text, a text
\* JSON.parse rejects.
Texts == {"", "json", "notjson"}
ParseError == "Unexpected token"

\* window.jsonLinterGlobalState as first created; what a saved state holds
NoGlobalState == [inputJSON |-> "", isValid |-> FALSE, errorMessage |-> "", mountCount |-> 0]
\* localStorage: empty, or the state an earlier session saved
SavedStates == {<<>>, <<[inputJSON |-> "json", isValid |-> TRUE, errorMessage |-> "", mountCount |-> 1]>>}

\* a component instance: st is its mount state; phase, refreshTimer and
\* refreshInterval belong to the dashboard; switchCount to the sample plugin;
\* inputJSON .. saveTimeout to the JSON linter
NoInstance ==
    [st |-> "none", phase |-> "idle", refreshTimer |-> 0,
     refreshInterval |-> DashRefreshInterval, switchCount |-> 0,
     inputJSON |-> "", isValid |-> FALSE, errorMessage |-> "", mountCount |-> 0,
     saveTimeout |-> 0]

World == [sdk |-> sdk, browser |-> browser, comp |-> comp, hist |-> hist]

Apply(w) ==
    /\ sdk' = w.sdk
    /\ browser' = w.browser
    /\ comp' = w.comp
    /\ hist' = w.hist

Range(q) == {q[i] : i \in 1..Len(q)}

\* Set.forEach over a registry: its members one after the other
RECURSIVE Members(_)
Members(S) ==
    IF S = {} THEN <<>>
    ELSE LET x == CHOOSE y \in S : TRUE IN <<x>> \o Members(S \ {x})

\* history: what cleanup() released or called, in the order it did
Event(k, id) == [kind |-> k, id |-> id]
Log(w, k, q) == [w EXCEPT !.hist.log = @ \o [i \in 1..Len(q) |-> Event(k, q[i])]]
Count(q, x) == Cardinality({i \in 1..Len(q) : q[i] = x})

\* ---- the browser
\* setInterval / setTimeout: the next handle
NewId(w) == w.browser.nextId

\* clearInterval(id) / clearTimeout(id): one pool of handles, either call
\* cancels either kind; an unknown handle is ignored
clearTimer(w, id) ==
    [w EXCEPT !.browser.activeIntervals = @ \ {id},
              !.browser.activeTimeouts = @ \ {id}]

clearTimers(w, ids) ==
    [w EXCEPT !.browser.activeIntervals = @ \ ids,
              !.browser.activeTimeouts = @ \ ids]

\* ---- the manager (DelvePluginSDK, ResourceManager)
\* mutant: the handlers are kept in a list
onCleanupList(w, h) ==
    IF h = NotAFunction
    THEN w
    ELSE [w EXCEPT !.sdk.cleanupHandlers = Append(@, h)]

\* onCleanup(handler): Set.add, after the typeof check
onCleanup(w, h) ==
    IF h = NotAFunction \/ h \in Range(w.sdk.cleanupHandlers)
    THEN w
    ELSE [w EXCEPT !.sdk.cleanupHandlers = Append(@, h)]

\* setManagedInterval(callback, delay)
setManagedInterval(w) ==
    [w EXCEPT !.browser.activeIntervals = @ \cup {NewId(w)},
              !.browser.nextId = @ + 1,
              !.sdk.intervals = @ \cup {NewId(w)}]

\* setManagedTimeout(callback, delay)
setManagedTimeout(w) ==
    [w EXCEPT !.browser.activeTimeouts = @ \cup {NewId(w)},
              !.browser.nextId = @ + 1,
              !.sdk.timeouts = @ \cup {NewId(w)}]

\* mutant: the id is dropped from the registry, clearInterval is not called
clearManagedIntervalUntracks(w, id) ==
    [w EXCEPT !.sdk.intervals = @ \ {id}]

\* clearManagedInterval(intervalId)
clearManagedInterval(w, id) ==
    [clearTimer(w, id) EXCEPT !.sdk.intervals = @ \ {id}]

\* clearManagedTimeout(timeoutId)
clearManagedTimeout(w, id) ==
    [clearTimer(w, id) EXCEPT !.sdk.timeouts = @ \ {id}]

\* addManagedEventListener(target, event, handler, options)
addManagedEventListener(w, l) ==
    [w EXCEPT !.browser.attached = @ \cup {l},
              !.sdk.eventListeners = Append(@, l)]

\* listeners.findIndex(l => l.event === event && l.handler === handler)
FindIndex(q, ev) ==
    IF \E k \in 1..Len(q) : q[k].event = ev
    THEN CHOOSE k \in 1..Len(q) : q[k].event = ev /\ \A j \in 1..(k - 1) : q[j].event /= ev
    ELSE 0

\* listeners.splice(index, 1)
Splice(q, k) == [j \in 1..(Len(q) - 1) |-> IF j < k THEN q[j] ELSE q[j + 1]]

\* removeManagedEventListener(target, event, handler): removeEventListener
\* is called without the options, which detaches the non-capture listener
removeManagedEventListener(w, ev) ==
    LET w1 == [w EXCEPT !.browser.attached = @ \ {[event |-> ev, capture |-> FALSE]}]
        k == FindIndex(w1.sdk.eventListeners, ev)
    IN  IF k = 0 THEN w1 ELSE [w1 EXCEPT !.sdk.eventListeners = Splice(@, k)]

\* addManagedWebSocket(websocket)
addManagedWebSocket(w, s) ==
    [w EXCEPT !.sdk.websockets = @ \cup {s}]

\* mutant: the controller is not listed
managedFetchUnlisted(w, f) == w

\* ResourceManager.managedFetch(url, options): the controller is listed
\* until the fetch settles
managedFetch(w, f) ==
    [w EXCEPT !.sdk.abortControllers = @ \cup {f}]

\* ---- the JSON linter component
\* saveState of instance i: the refs go to the global state and localStorage
saveState(w, i) ==
    LET st == [inputJSON |-> w.comp.inst[i].inputJSON,
               isValid |-> w.comp.inst[i].isValid,
               errorMessage |-> w.comp.inst[i].errorMessage,
               mountCount |-> w.comp.inst[i].mountCount]
    IN  [w EXCEPT !.comp.global = st, !.comp.storage = <<st>>]

\* debouncedSave of instance i
debouncedSave(w, i) ==
    LET w1 == clearTimer(w, w.comp.inst[i].saveTimeout)
    IN  [w1 EXCEPT !.browser.activeTimeouts = @ \cup {NewId(w1)},
                   !.browser.nextId = @ + 1,
                   !.comp.inst[i].saveTimeout = NewId(w1)]

\* watch([inputJSON, isValid, errorMessage], debouncedSave): runs when the
\* task changed one of the three refs of a mounted instance
Watched(w, i) == <<w.comp.inst[i].inputJSON, w.comp.inst[i].isValid, w.comp.inst[i].errorMessage>>
RunWatcher(before, w, i) ==
    IF Watched(before, i) /= Watched(w, i) /\ w.comp.inst[i].st = "mounted"
    THEN debouncedSave(w, i)
    ELSE w

\* validateAndFormat of instance i
validateAndFormat(w, i) ==
    LET text == w.comp.inst[i].inputJSON
    IN  [w EXCEPT !.comp.inst[i].isValid = (text = "json"),
                  !.comp.inst[i].errorMessage = IF text = "notjson" THEN ParseError ELSE ""]

\* loadState of instance i, with its nextTick callback
loadState(w, i) ==
    LET g == w.comp.global
        w1 == [w EXCEPT !.comp.inst[i].inputJSON = g.inputJSON,
                        !.comp.inst[i].isValid = g.isValid,
                        !.comp.inst[i].errorMessage = g.errorMessage]
    IN  IF g.inputJSON /= "" THEN validateAndFormat(w1, i) ELSE w1

RECURSIVE cleanup(_)
RECURSIVE RunHandlers(_, _)
RECURSIVE RunHandlersUncaught(_, _)

\* the body of one cleanup handler
RunHandler(w, h) ==
    LET ran == Log([w EXCEPT !.hist.ran = Append(@, h)], "callback", <<h>>)
    IN  CASE h.kind = "reenter" -> cleanup(ran)
          [] h.kind = "registers" ->
                 LET r1 == setManagedInterval(ran)
                     r2 == addManagedEventListener(r1, [event |-> "click", capture |-> FALSE])
                     r3 == addManagedWebSocket(
                               [r2 EXCEPT !.browser.sockets["ws2"] = "connecting"], "ws2")
                     \* DelvePluginSDK.managedFetch registers its abort closure
                     r4 == onCleanup(r3, Handler("abort", "f2"))
                 IN  onCleanup(r4, Handler("late", 0))
          [] h.kind = "dashboard" ->
                 \* if (refreshTimer) clearInterval(refreshTimer)
                 IF ran.comp.inst[h.inst].refreshTimer /= 0
                 THEN clearTimer(ran, ran.comp.inst[h.inst].refreshTimer)
                 ELSE ran
          [] h.kind = "linter" ->
                 \* clearTimeout(saveTimeout); clearTimeout(window....); saveState()
                 saveState(clearTimers(ran, {ran.comp.inst[h.inst].saveTimeout,
                                             ran.comp.validationTimeout}), h.inst)
          [] h.kind = "abort" ->
                 \* DelvePluginSDK.managedFetch: () => { controller.abort() }
                 [ran EXCEPT !.browser.aborted = @ \cup {h.inst}]
          [] OTHER -> ran   \* "plain", "sample"; "throws": caught and logged

\* mutant: no try/catch around handler(), a throwing handler ends the loop
RunHandlersUncaught(w, i) ==
    IF i > Len(w.sdk.cleanupHandlers)
    THEN w
    ELSE LET h == w.sdk.cleanupHandlers[i]
         IN  IF h.kind = "throws" THEN RunHandler(w, h)
             ELSE RunHandlersUncaught(RunHandler(w, h), i + 1)

\* this.cleanupHandlers.forEach(...): insertion order, entries added while
\* iterating are visited too
RunHandlers(w, i) ==
    IF i > Len(w.sdk.cleanupHandlers)
    THEN w
    ELSE RunHandlers(RunHandler(w, w.sdk.cleanupHandlers[i]), i + 1)

\* mutant: cleanup() closes every socket of the registry
ClosableAll(w) == w.sdk.websockets

\* DelvePluginSDK.cleanup: the sockets that are OPEN or CONNECTING get
\* close(1000, ...)
Closable(w) == {s \in w.sdk.websockets : w.browser.sockets[s] \in {"open", "connecting"}}

\* mutant: the custom handlers run first, the sockets are closed last
cleanupBodyHandlersFirst(w) ==
    LET w0 == [w EXCEPT !.sdk.isShuttingDown = TRUE,
                        !.hist.atFirst = w.sdk.cleanupHandlers,
                        !.hist.effective = @ + 1]
        w1 == [RunHandlers(w0, 1) EXCEPT !.sdk.cleanupHandlers = <<>>]
        w2 == [Log(clearTimers(w1, w1.sdk.intervals \cup w1.sdk.timeouts), "interval",
                   Members(w1.sdk.intervals \cup w1.sdk.timeouts))
                 EXCEPT !.sdk.intervals = {}, !.sdk.timeouts = {}]
        w3 == [Log(w2, "listener", w2.sdk.eventListeners)
                 EXCEPT !.browser.attached = @ \ Range(w2.sdk.eventListeners),
                        !.sdk.eventListeners = <<>>]
        closing == {s \in w3.sdk.websockets : w3.browser.sockets[s] \in {"open", "connecting"}}
    IN  [Log(w3, "socket", Members(closing))
           EXCEPT !.browser.sockets = [s \in Sockets |-> IF s \in closing THEN "closing" ELSE @[s]],
                  !.sdk.websockets = {}]

\* cleanup(), after the guard
cleanupBody(w) ==
    LET w0 == [w EXCEPT !.sdk.isShuttingDown = TRUE,
                        !.hist.atFirst = w.sdk.cleanupHandlers,
                        !.hist.effective = @ + 1]
        w1 == [Log(clearTimers(w0, w0.sdk.intervals), "interval", Members(w0.sdk.intervals))
                 EXCEPT !.sdk.intervals = {}]
        w2 == [Log(clearTimers(w1, w1.sdk.timeouts), "timeout", Members(w1.sdk.timeouts))
                 EXCEPT !.sdk.timeouts = {}]
        \* target.removeEventListener(event, handler, options) for every entry
        w3 == [Log(w2, "listener", w2.sdk.eventListeners)
                 EXCEPT !.browser.attached = @ \ Range(w2.sdk.eventListeners),
                        !.sdk.eventListeners = <<>>]
        closing == Closable(w3)
        w4 == [Log(w3, "socket", Members(closing))
                 EXCEPT !.browser.sockets = [s \in Sockets |-> IF s \in closing THEN "closing" ELSE @[s]],
                        !.browser.closes = [s \in Sockets |-> IF s \in closing
                                                              THEN Append(@[s], NormalClosure) ELSE @[s]],
                        !.sdk.websockets = {}]
        \* ResourceManager: pending requests that are not aborted yet are aborted
        w5 == [Log(w4, "abort", Members(w4.sdk.abortControllers \ w4.browser.aborted))
                 EXCEPT !.browser.aborted = @ \cup w4.sdk.abortControllers,
                        !.sdk.abortControllers = {}]
        w6 == RunHandlers(w5, 1)
    IN  [w6 EXCEPT !.sdk.cleanupHandlers = <<>>]

\* mutant: the guard does not stop a call made while cleanup() is running
cleanupReentrant(w) ==
    IF w.sdk.isShuttingDown /\ (w.hist.effective >= 2 \/ w.sdk.cleanupHandlers = <<>>)
    THEN w
    ELSE cleanupBody(w)

\* mutant: the flag is a lock held only while cleanup() runs
cleanupUnlatched(w) ==
    IF w.sdk.isShuttingDown THEN w
    ELSE [cleanupBody(w) EXCEPT !.sdk.isShuttingDown = FALSE]

\* cleanup(): if (this.isShuttingDown) return
cleanup(w) ==
    IF w.sdk.isShuttingDown THEN w ELSE cleanupBody(w)

\* ---- the GitHub dashboard component
\* the request instance i has in flight while it loads its repositories:
\* every managedFetch call makes a controller of its own
Fetch(i) == "f" \o ToString(i)

\* setupAutoRefresh of instance i
setupAutoRefresh(w, i) ==
    LET t == w.comp.inst[i].refreshTimer
        w1 == IF t /= 0 THEN clearTimer(w, t) ELSE w
    IN  IF w1.comp.inst[i].refreshInterval > 0
        THEN [setManagedInterval(w1) EXCEPT !.comp.inst[i].refreshTimer = NewId(w1)]
        ELSE w1

\* ---- Init
InitUI ==
    /\ ui = "none"
    /\ sdk = [cleanupHandlers |-> <<>>, isShuttingDown |-> FALSE,
              intervals |-> {}, timeouts |-> {}, eventListeners |-> <<>>,
              websockets |-> {}, abortControllers |-> {}]
    /\ browser = [nextId |-> 1, activeIntervals |-> {}, activeTimeouts |-> {},
                  attached |-> {}, sockets |-> [s \in Sockets |-> "none"],
                  closes |-> [s \in Sockets |-> <<>>], aborted |-> {}]
    /\ comp = [mounts |-> 0, inst |-> [i \in Instances |-> NoInstance],
               global |-> NoGlobalState, storage |-> <<>>,
               validationTimeout |-> 0, validationOwner |-> 0]
    /\ hist = [calls |-> 0, effective |-> 0, atFirst |-> <<>>, ran |-> <<>>,
               log |-> <<>>, live |-> {}, again |-> {}]

Mounted == {i \in Instances : comp.inst[i].st = "mounted"}
CanMount == Mounted = {} /\ comp.mounts < MaxMounts
IdsLeft == browser.nextId <= MaxTimers
\* the handles world w took are within the bound
WithinIds(w) == w.browser.nextId <= MaxTimers + 1

\* ---- actions
\* the host loads a front end (the module body runs: the manager is created)
Load(u) ==
    /\ ui = "none"
    /\ ui' = u
    /\ UNCHANGED <<sdk, browser, comp, hist, srvVars>>

\* the host's full-shutdown signal (the exposed cleanup, or beforeunload)
HostCleanup ==
    /\ ui /= "none"
    /\ hist.calls < MaxCleanups
    /\ LET w == cleanup([World EXCEPT !.hist.calls = @ + 1])
       IN  WithinIds(w) /\ Apply(w)
    /\ UNCHANGED <<ui, srvVars>>

\* the JSON linter's module body: the global state is created, and restored
\* from localStorage when an earlier session left a saved state there
LoadLinter(saved) ==
    /\ ui = "none"
    /\ ui' = "linter"
    /\ comp' = [comp EXCEPT !.storage = saved,
                            !.global = IF saved = <<>> THEN NoGlobalState ELSE saved[1]]
    /\ UNCHANGED <<sdk, browser, hist, srvVars>>

\* what a timeout does when it comes due: the linter's validation callback
\* (validateAndFormat, then the watcher), the linter's saveState, or a
\* callback of the test client
TimeoutCallback(w, id) ==
    IF id = w.comp.validationTimeout
    THEN RunWatcher(w, validateAndFormat(w, w.comp.validationOwner), w.comp.validationOwner)
    ELSE IF \E i \in Instances : w.comp.inst[i].saveTimeout = id
    THEN saveState(w, CHOOSE i \in Instances : w.comp.inst[i].saveTimeout = id)
    ELSE w

\* a setTimeout callback comes due
TimeoutFires(id) ==
    /\ id \in browser.activeTimeouts
    /\ LET w == TimeoutCallback([World EXCEPT !.browser.activeTimeouts = @ \ {id}], id)
       IN  WithinIds(w) /\ Apply(w)
    /\ UNCHANGED <<ui, srvVars>>

\* -- a test client calling the manager's API
\* (the client with timers registers each handler once; hist.again: the
\* handlers offered again while they were registered)
ClientOnCleanup(h) ==
    /\ \/ ui = "client" /\ h \in TestHandlers \cup {NotAFunction}
                        /\ h \notin Range(sdk.cleanupHandlers)
       \/ ui = "clientlate" /\ h \in LateHandlers
       \/ ui = "clientws" /\ h = Handler("plain", 0)
    /\ Apply(onCleanup([World EXCEPT !.hist.again =
                           IF h \in Range(sdk.cleanupHandlers) THEN @ \cup {h} ELSE @], h))
    /\ UNCHANGED <<ui, srvVars>>

\* (the client with sockets runs one interval at most)
ClientSetInterval ==
    /\ ui = "client" \/ (ui = "clientws" /\ browser.nextId = 1)
    /\ IdsLeft
    /\ Apply(setManagedInterval(World))
    /\ UNCHANGED <<ui, srvVars>>

ClientSetTimeout ==
    /\ ui = "client"
    /\ IdsLeft
    /\ Apply(setManagedTimeout(World))
    /\ UNCHANGED <<ui, srvVars>>

ClientClearInterval(id) ==
    /\ ui \in {"client", "clientws"}
    /\ id \in sdk.intervals
    /\ Apply(clearManagedInterval(World, id))
    /\ UNCHANGED <<ui, srvVars>>

ClientClearTimeout(id) ==
    /\ ui = "client"
    /\ id \in sdk.timeouts
    /\ Apply(clearManagedTimeout(World, id))
    /\ UNCHANGED <<ui, srvVars>>

\* -- test clients using listeners and fetches ("clientio"), WebSockets
\* ("clientws"), handlers that register during cleanup() ("clientlate")
\* hist.live: the listeners the client added and has not removed.  A removal
\* is counted for the listener the target let go of, or else for the one the
\* registry dropped.
ClientAddListener(l) ==
    /\ ui = "clientio" \/ (ui = "clientws" /\ sdk.eventListeners = <<>> /\ ~l.capture)
    /\ Len(sdk.eventListeners) < MaxListeners
    /\ Apply(addManagedEventListener([World EXCEPT !.hist.live = @ \cup {l}], l))
    /\ UNCHANGED <<ui, srvVars>>

ClientRemoveListener(ev) ==
    /\ ui = "clientio"
    /\ LET plain == [event |-> ev, capture |-> FALSE]
           k == FindIndex(sdk.eventListeners, ev)
           gone == IF plain \in browser.attached THEN {plain}
                   ELSE IF k = 0 THEN {} ELSE {sdk.eventListeners[k]}
       IN  Apply(removeManagedEventListener([World EXCEPT !.hist.live = @ \ gone], ev))
    /\ UNCHANGED <<ui, srvVars>>

\* new WebSocket(url), then addManagedWebSocket
ClientAddWebSocket(s) ==
    /\ ui = "clientws"
    /\ browser.sockets[s] = "none"
    /\ Apply(addManagedWebSocket([World EXCEPT !.browser.sockets[s] = "connecting"], s))
    /\ UNCHANGED <<ui, srvVars>>

\* the client closes a socket itself: ws.close(1000); the socket is CLOSING
\* until its 'close' event
ClientClosesSocket(s) ==
    /\ ui = "clientws"
    /\ browser.sockets[s] \in {"connecting", "open"}
    /\ browser' = [browser EXCEPT !.sockets[s] = "closing",
                                  !.closes[s] = Append(@, NormalClosure)]
    /\ UNCHANGED <<ui, sdk, comp, hist, srvVars>>

\* the connection of a socket is established
SocketOpens(s) ==
    /\ browser.sockets[s] = "connecting"
    /\ browser' = [browser EXCEPT !.sockets[s] = "open"]
    /\ UNCHANGED <<ui, sdk, comp, hist, srvVars>>

\* a socket is closed (by the peer, by a failure, or at the end of the
\* closing handshake); its 'close' listener takes it off the registry
SocketCloses(s) ==
    /\ browser.sockets[s] \in {"connecting", "open", "closing"}
    /\ Apply([World EXCEPT !.browser.sockets[s] = "closed", !.sdk.websockets = @ \ {s}])
    /\ UNCHANGED <<ui, srvVars>>

\* the callback of an interval of the test client or of the sample plugin
\* runs (it changes what is displayed only)
IntervalFires(id) ==
    /\ ui \in {"client", "sample"}
    /\ id \in browser.activeIntervals
    /\ UNCHANGED vars

\* DelvePluginSDK.managedFetch: the abort closure is registered by onCleanup
ClientManagedFetch(f) ==
    /\ ui = "clientio"
    /\ Apply(onCleanup(World, Handler("abort", f)))
    /\ UNCHANGED <<ui, srvVars>>

\* -- sample plugin (PluginComponent.vue): a new component instance is set
\* up and mounted: <script setup> registers the cleanup closure, onMounted
\* counts the switch and starts the auto-update on switch #1
SampleMount ==
    /\ ui = "sample"
    /\ CanMount
    /\ IdsLeft
    /\ LET i == comp.mounts + 1
           w1 == onCleanup(World, Handler("sample", i))
           w2 == [w1 EXCEPT !.comp.mounts = i,
                            !.comp.inst[i].st = "mounted",
                            !.comp.inst[i].switchCount = @ + 1]
       IN  Apply(IF w2.comp.inst[i].switchCount = 1 THEN setManagedInterval(w2) ELSE w2)
    /\ UNCHANGED <<ui, srvVars>>

\* mutant: onBeforeUnmount calls delveSDK.cleanup()
SampleUnmountCleans(i) ==
    /\ ui = "sample"
    /\ comp.inst[i].st = "mounted"
    /\ Apply(cleanup([World EXCEPT !.comp.inst[i].st = "unmounted"]))
    /\ UNCHANGED <<ui, srvVars>>

\* onBeforeUnmount: logs only
SampleUnmount(i) ==
    /\ ui = "sample"
    /\ comp.inst[i].st = "mounted"
    /\ comp' = [comp EXCEPT !.inst[i].st = "unmounted"]
    /\ UNCHANGED <<ui, sdk, browser, hist, srvVars>>

\* -- GitHub dashboard (component.js): setup registers the cleanup closure,
\* onMounted starts loadConfig
DashMount ==
    /\ ui = "dashboard"
    /\ CanMount
    /\ LET i == comp.mounts + 1
           w1 == onCleanup(World, Handler("dashboard", i))
       IN  Apply([w1 EXCEPT !.comp.mounts = i,
                            !.comp.inst[i].st = "mounted",
                            !.comp.inst[i].phase = "loadConfig"])
    /\ UNCHANGED <<ui, srvVars>>

\* loadConfig resumes with the stored configuration (none, or one holding a
\* refreshInterval); a changed refreshInterval runs the watcher while the
\* instance is mounted
DashLoadConfig(i, stored) ==
    /\ ui = "dashboard"
    /\ comp.inst[i].phase = "loadConfig"
    /\ LET v == IF stored = <<>> THEN comp.inst[i].refreshInterval ELSE stored[1]
           w1 == managedFetch([World EXCEPT !.comp.inst[i].phase = "loadRepositories",
                                            !.comp.inst[i].refreshInterval = v],
                              Fetch(i))
           watch == v /= comp.inst[i].refreshInterval /\ comp.inst[i].st = "mounted"
       IN  /\ watch /\ v > 0 => IdsLeft
           /\ Apply(IF watch THEN setupAutoRefresh(w1, i) ELSE w1)
    /\ UNCHANGED <<ui, srvVars>>

\* the request of loadRepositories settles (.finally drops its controller),
\* loadRepositories resumes and onMounted goes on to setupAutoRefresh()
DashLoadRepositories(i) ==
    /\ ui = "dashboard"
    /\ comp.inst[i].phase = "loadRepositories"
    /\ comp.inst[i].refreshInterval > 0 => IdsLeft
    /\ Apply(setupAutoRefresh([World EXCEPT !.comp.inst[i].phase = "done",
                                            !.sdk.abortControllers = @ \ {Fetch(i)}], i))
    /\ UNCHANGED <<ui, srvVars>>

\* onUnmounted: if (refreshTimer) clearInterval(refreshTimer)
DashUnmount(i) ==
    /\ ui = "dashboard"
    /\ comp.inst[i].st = "mounted"
    /\ LET w1 == [World EXCEPT !.comp.inst[i].st = "unmounted"]
           t == comp.inst[i].refreshTimer
       IN  Apply(IF t /= 0 THEN clearTimer(w1, t) ELSE w1)
    /\ UNCHANGED <<ui, srvVars>>

\* -- JSON linter (frontend/src/main.js): <script setup> takes the refs from
\* the global state and registers the cleanup closure; onMounted counts the
\* mount and loads the state
LinterMount ==
    /\ ui = "linter"
    /\ CanMount
    /\ LET i == comp.mounts + 1
           g == comp.global
           w1 == onCleanup(World, Handler("linter", i))
           w2 == [w1 EXCEPT !.comp.mounts = i,
                            !.comp.inst[i].st = "mounted",
                            !.comp.inst[i].inputJSON = g.inputJSON,
                            !.comp.inst[i].isValid = g.isValid,
                            !.comp.inst[i].errorMessage = g.errorMessage,
                            !.comp.inst[i].mountCount = g.mountCount + 1]
           w3 == RunWatcher(w2, loadState(w2, i), i)
       IN  WithinIds(w3) /\ Apply(w3)
    /\ UNCHANGED <<ui, srvVars>>

\* onContentEditableInput: the text is taken, the validation is debounced,
\* and the watcher debounces a save when the text changed
LinterInput(i, text) ==
    /\ ui = "linter"
    /\ comp.inst[i].st = "mounted"
    /\ LET w1 == [World EXCEPT !.comp.inst[i].inputJSON = text]
           w2 == clearTimer(w1, w1.comp.validationTimeout)
           w3 == [w2 EXCEPT !.browser.activeTimeouts = @ \cup {NewId(w2)},
                            !.browser.nextId = @ + 1,
                            !.comp.validationTimeout = NewId(w2),
                            !.comp.validationOwner = i]
           w4 == RunWatcher(World, w3, i)
       IN  WithinIds(w4) /\ Apply(w4)
    /\ UNCHANGED <<ui, srvVars>>

\* mutant: onBeforeUnmount clears the timeouts and does not save
LinterUnmountUnsaved(i) ==
    /\ ui = "linter"
    /\ comp.inst[i].st = "mounted"
    /\ Apply(clearTimers([World EXCEPT !.comp.inst[i].st = "unmounted"],
                         {comp.inst[i].saveTimeout, comp.validationTimeout}))
    /\ UNCHANGED <<ui, srvVars>>

\* mutant: onBeforeUnmount saves the state and leaves the timeouts pending
LinterUnmountKeepsTimers(i) ==
    /\ ui = "linter"
    /\ comp.inst[i].st = "mounted"
    /\ Apply(saveState([World EXCEPT !.comp.inst[i].st = "unmounted"], i))
    /\ UNCHANGED <<ui, srvVars>>

\* onBeforeUnmount: both timeouts are cleared and the state is saved
LinterUnmount(i) ==
    /\ ui = "linter"
    /\ comp.inst[i].st = "mounted"
    /\ LET w1 == [World EXCEPT !.comp.inst[i].st = "unmounted"]
           w2 == clearTimers(w1, {comp.inst[i].saveTimeout, comp.validationTimeout})
       IN  Apply(saveState(w2, i))
    /\ UNCHANGED <<ui, srvVars>>

NextUI ==
    \/ \E u \in {"client", "clientio", "clientws", "clientlate", "sample", "dashboard"} : Load(u)
    \/ \E saved \in SavedStates : LoadLinter(saved)
    \/ HostCleanup
    \/ \E id \in 1..MaxTimers : TimeoutFires(id)
    \/ \E h \in TestHandlers \cup LateHandlers \cup {NotAFunction} : ClientOnCleanup(h)
    \/ ClientSetInterval
    \/ ClientSetTimeout
    \/ \E id \in 1..MaxTimers : ClientClearInterval(id)
    \/ \E id \in 1..MaxTimers : ClientClearTimeout(id)
    \/ \E l \in Listeners : ClientAddListener(l)
    \/ \E ev \in {"click"} : ClientRemoveListener(ev)
    \/ \E s \in Sockets : ClientAddWebSocket(s)
    \/ \E s \in Sockets : SocketOpens(s)
    \/ \E s \in Sockets : ClientClosesSocket(s)
    \/ \E s \in Sockets : SocketCloses(s)
    \/ \E id \in 1..MaxTimers : IntervalFires(id)
    \/ \E f \in Fetches : ClientManagedFetch(f)
    \/ SampleMount
    \/ \E i \in Instances : SampleUnmount(i)
    \/ DashMount
    \/ \E i \in Instances, stored \in {<<>>, <<0>>, <<60>>} : DashLoadConfig(i, stored)
    \/ \E i \in Instances : DashLoadRepositories(i)
    \/ \E i \in Instances : DashUnmount(i)
    \/ LinterMount
    \/ \E i \in Instances, text \in Texts : LinterInput(i, text)
    \/ \E i \in Instances : LinterUnmount(i)


Next ==
    \/ \E ok \in BOOLEAN : ServeListen(ok)
    \/ \E c \in Conns : Accept(c)
    \/ \E c \in Conns, line \in Lines : Scan(c, line)
    \/ \E c \in Conns : Handle(c)
    \/ \E c \in Conns : PeerClose(c)
    \/ \E c \in Conns : InitializeUnmarshal(c)
    \/ \E c \in Conns : InitializeValidate(c)
    \/ \E c \in Conns : Start(c)
    \/ \E c \in Conns : Stop(c)
    \/ \E c \in Conns : HandleGetInfo(c)
    \/ \E c \in Conns : HandleExecuteAction(c)
    \/ \E c \in Conns : HandleHealthCheck(c)
    \/ RefreshBegin

Init == InitServer /\ InitUI

Spec == Init /\ [][Next]_vars

SpecUI == Init /\ [][NextUI]_vars

\* The server with Shutdown called at any moment, fed the lifecycle requests
\* of a host.  Shutdown is straight-line code, Accept on a closed listener
\* fails at once, and the Go scheduler runs every goroutine: weak fairness.
ShutdownLines ==
    {l \in Lines : l.json = "ok" /\
        \/ l.method \in {"start", "stop"}
        \/ l.method = "initialize" /\ l.token = "tok" /\ l.interval = <<60>>}

NextShutdown ==
    \/ \E ok \in BOOLEAN : ServeListen(ok)
    \/ \E c \in Conns : Accept(c)
    \/ AcceptFails
    \/ ShutdownCancel
    \/ ShutdownClose
    \/ \E c \in Conns, line \in ShutdownLines : Scan(c, line)
    \/ \E c \in Conns : Handle(c)
    \/ \E c \in Conns : PeerClose(c)
    \/ \E c \in Conns : InitializeUnmarshal(c)
    \/ \E c \in Conns : InitializeValidate(c)
    \/ \E c \in Conns : Start(c)
    \/ \E c \in Conns : Stop(c)
    \/ RefreshBegin
    \/ RefreshEnd

SpecShutdown ==
    /\ Init /\ [][NextShutdown]_vars
    /\ WF_vars(ShutdownClose) /\ WF_vars(AcceptFails)
    /\ WF_vars(RefreshBegin) /\ WF_vars(RefreshEnd)

\* ================================================================= claims

InFlight(c) == IF pc[c] \in {"read", "call", "validate"} THEN {reads[c]} ELSE {}
Stepped(c) == pc'[c] /= pc[c]
OthersUntouched(c) ==
    \A d \in Conns \ {c} :
        /\ pc'[d] = pc[d] /\ cur'[d] = cur[d] /\ reads'[d] = reads[d]
        /\ out'[d] = out[d] /\ last'[d] = last[d]
Answers(c, r) ==
    /\ out'[c] = Append(out[c], reads[c])
    /\ last'[c] = r
    /\ pc'[c] = "scan"

C2_StartNeedsInitialize ==
    \A c \in Conns :
        (pc[c] = "call" /\ cur[c].method = "start") => lifecycle /= "Uninitialized"

\* C3: over all connections at most one state-changing call (Initialize,
\* Start, Stop of the Plugin Implementation) is in flight at any time.
C3_OneStateChangingCall ==
    Cardinality({c \in Conns : pc[c] \in {"call", "validate"}
                               /\ cur[c].method \in StateChanging}) <= 1

C7_UnknownMethod ==
    [][\A c \in Conns :
         (pc[c] = "read" /\ cur[c].json = "ok" /\ cur[c].method \notin Methods
            /\ Stepped(c)) =>
            /\ Answers(c, [success |-> FALSE,
                           error |-> <<"unknown method: ", cur[c].method>>,
                           result |-> NoResult])
            /\ UNCHANGED <<pluginVars, lifecycle>>
            /\ OthersUntouched(c)]_vars

\* an unknown method was answered while the other connection is inside a call
C7_Witness ==
    /\ last["c1"].error = <<"unknown method: ", "restart">>
    /\ pc["c1"] = "scan"
    /\ pc["c2"] = "call"
    /\ lifecycle = "Initialized"

\* C8: initialize without a config mapping is answered success:false, does
\* not reach the Plugin Implementation's Initialize, and leaves the lifecycle
\* (Uninitialized included) and the plugin as they were.
C8_InitializeNeedsConfig ==
    [][\A c \in Conns :
         (pc[c] = "read" /\ cur[c].json = "ok" /\ cur[c].method = "initialize"
            /\ cur[c].cfgKind /= "map" /\ Stepped(c)) =>
            /\ Answers(c, [success |-> FALSE, error |-> <<"config is required">>,
                           result |-> NoResult])
            /\ UNCHANGED <<pluginVars, lifecycle>>]_vars

\* an initialize without a config mapping was answered on a server that
\* no initialize has reached
C8_Witness ==
    \E c \in Conns :
        /\ last[c].error = <<"config is required">>
        /\ lifecycle = "Uninitialized"
        /\ ~client
        /\ pc[c] = "scan"

\* C9: once a stop has succeeded (Stopped), no initialize or start request
\* reaches the Plugin Implementation.
C9_StoppedIsTerminal ==
    [][\A c \in Conns :
         (lifecycle = "Stopped" /\ pc[c] = "read" /\ pc'[c] = "call") =>
            cur[c].method \notin {"initialize", "start"}]_vars

\* C10: when the Plugin Implementation returns an error from Initialize,
\* Start or Stop, the Response is success:false with exactly the plugin's
\* error text, and the lifecycle (the history of successes, the client that
\* only a successful Initialize creates, the background loops that only
\* Start spawns) is what it was before.
C10_PluginErrorVerbatim ==
    [][\A c \in Conns :
         /\ (pc[c] = "validate" /\ config.token = "" /\ Stepped(c)) =>
               Answers(c, [success |-> FALSE, error |-> <<"github_token is required">>,
                           result |-> NoResult])
         /\ (pc[c] = "call" /\ cur[c].method = "initialize" /\ cur[c].token = "badtype"
               /\ Stepped(c)) =>
               Answers(c, [success |-> FALSE,
                           error |-> <<"failed to unmarshal config: ", "json type error">>,
                           result |-> NoResult])
         /\ (pc[c] \in {"call", "validate"} /\ cur[c].method \in StateChanging
               /\ Len(out'[c]) > Len(out[c]) /\ ~last'[c].success) =>
               UNCHANGED <<lifecycle, client, pending, loops>>]_vars

\* an Initialize failed after an earlier one had succeeded
C10_Witness ==
    \E c \in Conns :
        /\ last[c].error = <<"github_token is required">>
        /\ lifecycle = "Initialized"
        /\ client
        /\ pc[c] = "scan"

\* ---- claims about the client side (SpecUI)

MountStep == \E i \in Instances : comp'.inst[i].st /= comp.inst[i].st

\* C4: cleanup() is idempotent: every handler registered before the first
\* call has run exactly once when that call returns, and every later call
\* changes nothing (in the manager, the browser or the plugin UI).
C4_CleanupIdempotent ==
    /\ [](hist.calls >= 1 =>
            /\ \A h \in Range(hist.atFirst) : Count(hist.ran, h) = 1
            /\ hist.effective = 1)
    /\ [][(hist.calls >= 1 /\ hist.calls' > hist.calls) =>
            /\ UNCHANGED <<sdk, browser, comp>>
            /\ hist' = [hist EXCEPT !.calls = @ + 1]]_vars

\* cleanup() was called twice after three handlers were registered, one of
\* them throwing and one calling cleanup() itself
C4_Witness ==
    /\ hist.calls = 2
    /\ Len(hist.atFirst) = 3
    /\ Len(hist.ran) = 3
    /\ sdk.isShuttingDown

\* C5 as stated: a mount or an unmount never triggers cleanup() and leaves
\* every registered interval active.
C5_UnmountKeepsResources ==
    [][MountStep =>
         /\ sdk'.isShuttingDown = sdk.isShuttingDown
         /\ hist'.effective = hist.effective
         /\ \A id \in sdk.intervals :
               id \in browser.activeIntervals => id \in browser'.activeIntervals]_vars

\* C5, amended: until the host calls cleanup(), isShuttingDown is false and
\* no handler has run; a mount or an unmount removes nothing from the
\* manager's registries; in the sample plugin every registered interval
\* stays active, while the dashboard's onUnmounted clears no interval but
\* the unmounted instance's own refreshTimer.
C5_UnmountNeverCleansUp ==
    /\ [](hist.calls = 0 => (~sdk.isShuttingDown /\ hist.ran = <<>>))
    /\ [](ui = "sample" /\ hist.calls = 0 => sdk.intervals \subseteq browser.activeIntervals)
    /\ [][MountStep =>
            /\ sdk'.isShuttingDown = sdk.isShuttingDown
            /\ hist' = hist
            /\ sdk.intervals \subseteq sdk'.intervals
            /\ sdk.timeouts \subseteq sdk'.timeouts
            /\ sdk'.eventListeners = sdk.eventListeners
            /\ sdk'.websockets = sdk.websockets
            /\ sdk'.abortControllers = sdk.abortControllers
            /\ browser'.aborted = browser.aborted
            /\ Range(sdk.cleanupHandlers) \subseteq Range(sdk'.cleanupHandlers)
            /\ \A id \in browser.activeIntervals \ browser'.activeIntervals :
                  /\ ui = "dashboard"
                  /\ \E i \in Instances :
                        /\ comp.inst[i].st = "mounted" /\ comp'.inst[i].st = "unmounted"
                        /\ comp.inst[i].refreshTimer = id]_vars

\* the sample plugin was mounted, unmounted and mounted again with no
\* cleanup(): its intervals are registered and running
C5_Witness ==
    /\ ui = "sample"
    /\ comp.mounts = 2
    /\ comp.inst[1].st = "unmounted"
    /\ hist.calls = 0
    /\ sdk.intervals /= {}
    /\ sdk.intervals \subseteq browser.activeIntervals

\* ---- claims about Shutdown (SpecShutdown)

\* C11: once Shutdown has been called the context s.ctx, the one handleStart
\* passes to Start, is cancelled; a Serve loop that is running then, blocked
\* inside Accept included, returns; and the background loops that Start gave
\* that context to wind down.  (A process that died of a panic runs nothing.)
C11_ShutdownUnblocksServe ==
    /\ [](server.shutdown /= "idle" => server.cancelled)
    /\ (server.shutdown /= "idle" /\ server.pc = "accept")
          ~> (server.pc = "returned" \/ crashed)
    /\ server.cancelled ~> (loops = 0 \/ crashed)

\* Shutdown ran to its end while Serve was blocked in Accept with a
\* connection being served, Serve has returned and no loop is left
C11_Witness ==
    /\ server = [pc |-> "returned", listener |-> "closed", cancelled |-> TRUE,
                 shutdown |-> "done"]
    /\ lifecycle = "Running"
    /\ loops = 0 /\ pending = 0
    /\ ~crashed

\* ---- claims about cleanup() (SpecUI)

\* the step in which the first cleanup() call runs
FirstCleanup == hist.effective = 0 /\ hist'.effective >= 1

\* C12: when the first cleanup() call returns, every interval and timeout
\* registered before it is cleared, every listener added and not yet removed
\* is unbound, every tracked socket that was open or connecting has been
\* closed with code 1000, every registered callback has run, and every
\* registry is empty.
C12_CleanupReleasesEverything ==
    [][FirstCleanup =>
         /\ (sdk.intervals \cup sdk.timeouts)
               \cap (browser'.activeIntervals \cup browser'.activeTimeouts) = {}
         /\ hist.live \cap browser'.attached = {}
         /\ \A s \in sdk.websockets :
               browser.sockets[s] \in {"open", "connecting"} =>
                  browser'.sockets[s] = "closing" /\ browser'.closes[s] = <<NormalClosure>>
         /\ Range(sdk.cleanupHandlers) \subseteq Range(hist'.ran)
         /\ sdk'.intervals = {} /\ sdk'.timeouts = {}
         /\ sdk'.eventListeners = <<>> /\ sdk'.websockets = {}
         /\ sdk'.abortControllers = {} /\ sdk'.cleanupHandlers = <<>>]_vars

\* C13: a cleanup handler that throws is caught: in the cleanup() run that
\* calls it every registered handler runs, each once, the ones after the
\* throwing one included, and the handler registry is cleared.
C13_ThrowingHandlerIsCaught ==
    [][(FirstCleanup /\ Handler("throws", 0) \in Range(sdk.cleanupHandlers)) =>
         /\ \A h \in Range(sdk.cleanupHandlers) : Count(hist'.ran, h) = 1
         /\ sdk'.cleanupHandlers = <<>>
         /\ sdk'.isShuttingDown]_vars

\* cleanup() has run a throwing handler first and a plain one after it
C13_Witness ==
    /\ hist.atFirst = <<Handler("throws", 0), Handler("plain", 0)>>
    /\ hist.ran = hist.atFirst
    /\ sdk.cleanupHandlers = <<>>

\* C14: an interval set with setManagedInterval and then cleared with
\* clearManagedInterval never fires again and is no longer tracked; a later
\* cleanup() does not release it again, does not revive it and completes.
\* (An id below browser.nextId has been issued; ids are not reused.)
C14_ClearedIntervalStaysCleared ==
    /\ [](\A id \in 1..MaxTimers :
            ENABLED IntervalFires(id) => id \in browser.activeIntervals)
    /\ [][\A id \in 1..MaxTimers :
            /\ (id \in sdk.intervals /\ id \notin sdk'.intervals)
                  => id \notin browser'.activeIntervals
            /\ (id < browser.nextId /\ id \notin browser.activeIntervals)
                  => id \notin browser'.activeIntervals
            /\ (id < browser.nextId /\ id \notin sdk.intervals)
                  => /\ id \notin sdk'.intervals
                     /\ FirstCleanup => Event("interval", id) \notin Range(hist'.log)]_vars
    /\ [][FirstCleanup =>
            /\ hist'.effective = 1 /\ sdk'.isShuttingDown
            /\ sdk'.intervals \cap sdk.intervals = {}
            /\ browser'.activeIntervals \cap sdk.intervals = {}
            /\ Range(sdk.cleanupHandlers) \subseteq Range(hist'.ran)]_vars

\* the client with a socket set interval 1 and cleared it; the cleanup() that
\* followed closed the socket and ran the handler, and did not touch the id
C14_Witness ==
    /\ ui = "clientws" /\ browser.nextId = 2
    /\ hist.effective = 1
    /\ Event("interval", 1) \notin Range(hist.log)
    /\ \E i \in 1..Len(hist.log) : hist.log[i].kind = "socket"
    /\ hist.ran = <<Handler("plain", 0)>>
    /\ browser.activeIntervals = {} /\ sdk.intervals = {}

\* the phase of cleanup() an entry of its log belongs to
Phase(e) ==
    CASE e.kind \in {"interval", "timeout", "listener"} -> 1
      [] e.kind \in {"socket", "abort"} -> 2
      [] OTHER -> 3

\* C15: within one cleanup() run every timer is cleared and every listener
\* removed before any socket is closed, and every socket is closed before any
\* custom cleanup callback runs.
C15_CleanupOrder ==
    \A i, j \in 1..Len(hist.log) : i < j => Phase(hist.log[i]) <= Phase(hist.log[j])

\* one run that cleared an interval, removed a listener, closed a socket and
\* ran a callback
C15_Witness ==
    /\ hist.effective = 1
    /\ \A k \in {"interval", "listener", "socket", "callback"} :
          \E i \in 1..Len(hist.log) : hist.log[i].kind = k

\* C16: a cleanup() call made while cleanup() is running is a no-op: the
\* run releases every resource of the registries once and calls every handler
\* once, the handler that made the inner call included.
C16_CleanupReentrantSafe ==
    [][FirstCleanup =>
         /\ hist'.effective = 1
         /\ \A h \in Range(hist'.ran) : Count(hist'.ran, h) = 1
         /\ \A e \in Range(hist'.log) : Count(hist'.log, e) = 1
                 \/ (e.kind = "listener" /\ Count(hist'.log, e) = Count(sdk.eventListeners, e.id))
         /\ Len(hist'.log) = Cardinality(sdk.intervals) + Cardinality(sdk.timeouts)
                 + Len(sdk.eventListeners) + Len(hist'.ran)
                 + Cardinality({s \in sdk.websockets : browser.sockets[s] \in {"open", "connecting"}})
                 + Cardinality(sdk.abortControllers \ browser.aborted)]_vars

\* a handler called cleanup() from inside cleanup(); an interval had been
\* cleared before it and another handler ran after it
C16_Witness ==
    /\ hist.calls = 1 /\ hist.effective = 1
    /\ hist.ran = <<Handler("reenter", 0), Handler("plain", 0)>>
    /\ hist.log[1].kind = "interval"
    /\ Len(hist.log) = 3

\* C17: the isShuttingDown latch is one-way, and whatever is registered after
\* cleanup() was triggered, by a cleanup handler during the run included, is
\* accepted but never released or invoked by that or any later cleanup():
\* a cleanup() call invokes only callbacks and releases only timers,
\* listeners, sockets and requests that were registered before the trigger.
C17_LatchIgnoresLateRegistrations ==
    /\ [][sdk.isShuttingDown => sdk'.isShuttingDown]_vars
    /\ [][hist'.calls > hist.calls =>
            /\ sdk'.isShuttingDown
            /\ sdk.isShuttingDown =>
                  browser' = browser /\ hist'.ran = hist.ran /\ hist'.log = hist.log
            /\ ~sdk.isShuttingDown =>
                  /\ Range(hist'.ran) \subseteq Range(sdk.cleanupHandlers)
                  /\ browser.activeIntervals \ browser'.activeIntervals \subseteq sdk.intervals
                  /\ browser'.activeIntervals \ browser.activeIntervals \subseteq sdk'.intervals
                  /\ browser'.attached \ browser.attached \subseteq Range(sdk'.eventListeners)
                  /\ \A s \in Sockets : browser.sockets[s] = "none" => browser'.closes[s] = <<>>
                  /\ browser'.aborted \ browser.aborted
                        \subseteq sdk.abortControllers
                             \cup {h.inst : h \in {g \in Range(sdk.cleanupHandlers) : g.kind = "abort"}}]_vars

\* ---- claims about the requests (Spec)

\* C18: an initialize is answered success:true only if the config mapping of
\* that same request holds a non-empty github_token, whatever requests were
\* handled before it.
C18_InitializeNeedsOwnToken ==
    [][\A c \in Conns :
          (cur[c].method = "initialize" /\ Stepped(c) /\ pc'[c] = "scan" /\ last'[c].success)
             => cur[c].cfgKind = "map" /\ cur[c].token \notin {"absent", "badtype", ""}]_vars

\* the step in which connection c answers a health_check
HealthAnswered(c) == cur[c].method = "health_check" /\ Stepped(c) /\ pc'[c] = "scan"

\* C19: a health_check whose HealthCheck call returns an error is answered
\* success:true with result {healthy: false, message: <the error text>}; one
\* whose call returns no error is answered success:true with healthy:true.
C19_HealthCheckResult ==
    [][\A c \in Conns :
          HealthAnswered(c) =>
             \E e \in HealthCheck(CheckNameOf(cur[c])) :
                /\ Answers(c, [success |-> TRUE, error |-> <<>>,
                               result |-> [kind |-> "health", healthy |-> (e = <<>>),
                                           message |-> IF e = <<>> THEN <<"OK">> ELSE e,
                                           n |-> 0]])]_vars

\* one connection was told the token is invalid, the other that all is well
C19_Witness ==
    /\ last["c1"] = Response(TRUE, <<>>, Unhealthy(<<"invalid GitHub token">>))
    /\ last["c2"] = Response(TRUE, <<>>, Healthy)
    /\ ~crashed

\* C20: a health_check whose data has no string check_name is answered
\* success:false, and no other health_check is.
C20_MalformedHealthCheck ==
    [][\A c \in Conns :
          HealthAnswered(c) =>
             (last'[c].success = FALSE <=> cur[c].check \in {"absent", "notstring"})]_vars

\* ---- claims about the lifecycle (Spec)

\* C21: a start that follows a successful initialize (the last lifecycle call
\* that succeeded) succeeds and leaves the plugin Running: the response is
\* success:true, the background refresh has been spawned, and the client and
\* the configuration that Initialize set up are as they were.
C21_InitializeThenStartRuns ==
    [][\A c \in Conns :
         (pc[c] = "call" /\ cur[c].method = "start" /\ lifecycle = "Initialized" /\ Stepped(c)) =>
            /\ Answers(c, [success |-> TRUE, error |-> <<>>, result |-> NoResult])
            /\ lifecycle' = "Running"
            /\ pending' = pending + 1
            /\ client' /\ config' = config]_vars

\* one connection sent initialize with a token and then start; both were
\* answered success:true and the background refresh is in its loop
C21_Witness ==
    \E c \in Conns :
        /\ TotalReads = 2 /\ out[c] = <<1, 2>>
        /\ last[c] = Ok
        /\ lifecycle = "Running" /\ client /\ config.token = "tok"
        /\ loops = 1 /\ pending = 0 /\ ~crashed

\* the order of the lifecycle states
StateRank(st) ==
    CASE st = "Uninitialized" -> 0
      [] st = "Initialized" -> 1
      [] st = "Running" -> 2
      [] st = "Stopped" -> 3

\* C22: the lifecycle state never regresses: whatever requests arrive on
\* whatever connections, it only moves forward along Uninitialized,
\* Initialized, Running, Stopped, and a start while Running leaves it Running.
C22_StateNeverRegresses ==
    [][StateRank(lifecycle') >= StateRank(lifecycle)]_vars

\* C23 as stated: the body execute_action passes to HandleRequest is the JSON
\* encoding of the request's data, i.e. of the mapping req.Data.
C23_BodyIsRequestData ==
    \A c \in Conns :
        (pc[c] = "call" /\ cur[c].method = "execute_action") =>
           ExecuteBody(cur[c]) = (IF cur[c].payload = "absent" THEN <<"{}">>
                                  ELSE <<"{", "data", ":", cur[c].payload, "}">>)

\* C23, amended: execute_action passes the JSON encoding of the data member
\* of the request's data mapping (null when there is none) to
\* HandleRequest("POST", "/execute", body); an error of HandleRequest is
\* answered success:false with the error's text, verbatim, and no error is
\* answered success:true with the returned bytes as result.
C23_ExecuteActionForwards ==
    /\ [](\A c \in Conns :
            (pc[c] = "call" /\ cur[c].method = "execute_action") =>
               /\ ExecuteBody(cur[c]) = (IF cur[c].payload = "absent" THEN <<"null">> ELSE <<"[1]">>)
               /\ HandleRequest("POST", "/execute", ExecuteBody(cur[c])).err
                     = <<"endpoint not found: ", "POST", " ", "/execute">>)
    /\ [][\A c \in Conns :
            (pc[c] = "call" /\ cur[c].method = "execute_action" /\ Stepped(c)) =>
               LET r == HandleRequest("POST", "/execute", ExecuteBody(cur[c]))
               IN  /\ r.err /= <<>> =>
                         Answers(c, [success |-> FALSE, error |-> r.err, result |-> NoResult])
                   /\ r.err = <<>> =>
                         /\ last'[c].success /\ last'[c].error = <<>>
                         /\ last'[c].result.message = <<r.bytes>>
                   /\ UNCHANGED <<pluginVars, lifecycle>>]_vars

\* both connections had an execute_action answered with the plugin's error
C23_Witness ==
    /\ \A c \in Conns :
          /\ last[c] = Fail(<<"endpoint not found: ", "POST", " ", "/execute">>)
          /\ out[c] = <<1>> /\ pc[c] = "scan"
    /\ ~crashed

\* C24: get_info succeeds in every lifecycle state, its result is the mapping
\* GetInfo reports (status "running", the number of configured
\* repositories), and it changes neither the lifecycle state nor the plugin.
C24_GetInfoReadsOnly ==
    [][\A c \in Conns :
         (pc[c] = "call" /\ cur[c].method = "get_info" /\ Stepped(c)) =>
            /\ Answers(c, [success |-> TRUE, error |-> <<>>,
                           result |-> [kind |-> "info", healthy |-> FALSE,
                                       message |-> <<"running">>, n |-> config.repos]])
            /\ UNCHANGED <<config, client, pending, loops, crashed, lifecycle, server>>
            /\ OthersUntouched(c)]_vars

\* on a plugin that was never initialized, get_info was answered on one
\* connection, and on the other after its stop
C24_Witness ==
    /\ last["c1"].result.kind = "info" /\ out["c1"] = <<1>>
    /\ last["c2"].result.kind = "info" /\ out["c2"] = <<1, 2>>
    /\ lifecycle = "Stopped" /\ ~client

\* ---- claims about the connections (Spec, SpecShutdown)

\* the Plugin Implementation call of connection d can complete
CallCanReturn(d) ==
    ENABLED (\/ InitializeUnmarshal(d) \/ Start(d) \/ Stop(d)
             \/ HandleGetInfo(d) \/ HandleExecuteAction(d) \/ HandleHealthCheck(d))

\* C25: while a request of one connection is inside a Plugin Implementation
\* call, the requests of the other connections are still dispatched and
\* answered: every step of their handling stays enabled.
C25_ConnectionsIndependent ==
    \A c \in Conns : \A d \in Conns \ {c} :
        (pc[c] \in {"call", "validate"} /\ ~crashed) =>
            /\ pc[d] = "read" => ENABLED Handle(d)
            /\ pc[d] = "call" => CallCanReturn(d)
            /\ pc[d] = "validate" => ENABLED InitializeValidate(d)

\* c1 is inside the token check's network call while the get_info of c2 has
\* been dispatched to the plugin
C25_Witness ==
    /\ pc["c1"] = "call" /\ cur["c1"].check = "token_validity" /\ client
    /\ pc["c2"] = "call" /\ cur["c2"].method = "get_info"
    /\ ~crashed

\* C26: a connection is served until its peer closes it or the server is shut
\* down: once Shutdown has returned and an open connection is waiting for its
\* next line, no line of that connection reaches the Plugin Implementation.
C26_ShutdownEndsService ==
    \A c \in Conns :
        []((server.shutdown = "done" /\ pc[c] = "scan") => [](pc[c] \notin {"call", "validate"}))

\* ---- claims about the managers' resources (SpecUI)

\* C27: a request issued through managedFetch that is in flight when cleanup()
\* runs is aborted by that cleanup(): the dashboard's request of an instance
\* that is loading its repositories (ResourceManager), and every request
\* whose abort closure the SDK's managedFetch registered.
C27_CleanupAbortsFetches ==
    [][FirstCleanup =>
         /\ \A i \in Instances :
               (ui = "dashboard" /\ comp.inst[i].phase = "loadRepositories")
                  => Fetch(i) \in browser'.aborted
         /\ sdk.abortControllers \subseteq browser'.aborted
         /\ \A h \in Range(sdk.cleanupHandlers) :
               h.kind = "abort" => h.inst \in browser'.aborted]_vars

\* the dashboard's cleanup() ran while the first instance was loading its
\* repositories, and aborted the request
C27_Witness ==
    /\ ui = "dashboard"
    /\ hist.effective = 1
    /\ comp.inst[1].phase = "loadRepositories"
    /\ Fetch(1) \in browser.aborted
    /\ Event("abort", Fetch(1)) \in Range(hist.log)

\* C28: a managed socket that closes on its own leaves the registry, and
\* cleanup() calls close only on sockets that are open or connecting: one
\* that is closing or closed is left alone, so no socket is closed twice.
C28_SocketsClosedOnce ==
    /\ [](\A s \in Sockets :
            /\ Len(browser.closes[s]) <= 1
            /\ browser.sockets[s] = "closed" => s \notin sdk.websockets)
    /\ [][\A s \in Sockets :
            /\ (browser.sockets[s] /= "closed" /\ browser'.sockets[s] = "closed")
                  => s \notin sdk'.websockets
            /\ (FirstCleanup /\ browser.sockets[s] \in {"closing", "closed"})
                  => /\ browser'.closes[s] = browser.closes[s]
                     /\ browser'.sockets[s] = browser.sockets[s]
                     /\ Event("socket", s) \notin Range(hist'.log)]_vars

\* the client had closed ws1 itself and it was still closing, and in the
\* registry, when cleanup() ran: cleanup() closed ws2 only
C28_Witness ==
    /\ browser.sockets = [s \in Sockets |-> "closing"]
    /\ browser.closes = [s \in Sockets |-> <<NormalClosure>>]
    /\ hist.effective = 1
    /\ [i \in 1..Len(hist.log) |-> hist.log[i].kind] = <<"socket">>
    /\ hist.log[1].id = "ws2"

\* C29: removeManagedEventListener unbinds the listener that
\* addManagedEventListener bound, whatever its options, and drops that
\* binding from the registry: every bound listener stays tracked until
\* cleanup(), and after cleanup() none that was added before it is bound.
C29_RemoveUnbindsListener ==
    /\ [](~sdk.isShuttingDown => browser.attached \subseteq Range(sdk.eventListeners))
    /\ [][FirstCleanup => browser'.attached \subseteq Range(sdk'.eventListeners)]_vars

\* C30: registering with onCleanup a handler that is already registered
\* changes nothing: the handler is held once, and cleanup() runs it exactly
\* once.
C30_OnCleanupIdempotent ==
    /\ [](\A h \in Range(sdk.cleanupHandlers) : Count(sdk.cleanupHandlers, h) = 1)
    /\ [][/\ hist'.again /= hist.again => sdk' = sdk
          /\ FirstCleanup => \A h \in hist.again : Count(hist'.ran, h) = 1]_vars

\* the handler was registered twice and cleanup() has run it once
C30_Witness ==
    /\ hist.again = {Handler("plain", 0)}
    /\ hist.ran = <<Handler("plain", 0)>>
    /\ hist.effective = 1
    /\ sdk.cleanupHandlers = <<>>

\* the manager and the browser's resources are the same in two worlds
SameResources(a, b) == a.sdk = b.sdk /\ a.browser = b.browser

\* C31: removing what was already removed is a no-op: in every state, a
\* second clearManagedInterval, clearManagedTimeout or
\* removeManagedEventListener with the same arguments leaves the registries
\* and the browser's resources as the first call left them.
C31_RemoveTwiceIsNoOp ==
    /\ \A id \in 1..MaxTimers :
          /\ SameResources(clearManagedInterval(clearManagedInterval(World, id), id),
                           clearManagedInterval(World, id))
          /\ SameResources(clearManagedTimeout(clearManagedTimeout(World, id), id),
                           clearManagedTimeout(World, id))
    /\ \A ev \in {"click"} :
          SameResources(removeManagedEventListener(removeManagedEventListener(World, ev), ev),
                        removeManagedEventListener(World, ev))

\* ---- claims about the plugin UIs (SpecUI)

\* a new instance of the JSON linter is mounted after an earlier one
Remount == ui = "linter" /\ comp.mounts >= 1 /\ comp'.mounts = comp.mounts + 1
\* the three refs the editor shows
Refs(r) == <<r.inputJSON, r.isValid, r.errorMessage>>

InitializeFails(c) ==
    /\ pc[c] \in {"call", "validate"}
    /\ cur[c].method = "initialize"
    /\ pc'[c] = "scan"
    /\ ~last'[c].success

\* C33: an initialize that fails inside the Plugin Implementation leaves the
\* accepted configuration as it was: once an initialize has succeeded, the
\* step that answers a later one with an error writes nothing to the
\* configuration, and, failing calls changing nothing,
\* the plugin holds an accepted configuration (a token, a positive refresh
\* interval) whenever no initialize call is under way.
C33_FailedInitializeKeepsConfig ==
    /\ [][\A c \in Conns : (client /\ InitializeFails(c)) => config' = config]_vars
    /\ []((client /\ \A c \in Conns : pc[c] /= "validate")
             => (config.token /= "" /\ config.interval > 0))

\* C34: in the sample plugin the auto-update is started on the first mount
\* only: however often the UI is mounted and unmounted, the manager holds at
\* most one interval and at most one cleanup handler of the plugin.
C34_OneAutoUpdate ==
    ui = "sample" =>
        /\ Cardinality(sdk.intervals) <= 1
        /\ Cardinality(browser.activeIntervals) <= 1
        /\ Len(sdk.cleanupHandlers) <= 1

\* C35: at most one background refresh loop of the plugin is running at any
\* time, whatever start requests were accepted.
C35_OneRefreshLoop == loops <= 1

\* the stop call of connection c is answered with success in this step
StopReturns(c) ==
    /\ pc[c] = "call"
    /\ cur[c].method = "stop"
    /\ pc'[c] = "scan"
    /\ last'[c].success

\* C36: when a stop request has been answered with success, no background
\* refresh started by an earlier start is running: none is in its loop and
\* none is about to enter it.
C36_StopEndsBackgroundWork ==
    [][\A c \in Conns : StopReturns(c) => (loops' = 0 /\ pending' = 0)]_vars

\* C37: in the GitHub dashboard at most one auto-refresh interval is active
\* at any time, and the auto-refresh interval of an unmounted component is
\* not active, however loadConfig, loadRepositories, setupAutoRefresh,
\* changes of refreshInterval and the unmount interleave.
C37_OneAutoRefresh ==
    ui = "dashboard" =>
        /\ Cardinality(browser.activeIntervals) <= 1
        /\ \A i \in Instances :
              comp.inst[i].st = "unmounted" =>
                  comp.inst[i].refreshTimer \notin browser.activeIntervals

\* the pending timeouts that validate for, or save, instance i
ValidationTimers(i) ==
    {id \in browser.activeTimeouts : id = comp.validationTimeout /\ comp.validationOwner = i}
SaveTimers(i) == {id \in browser.activeTimeouts : id = comp.inst[i].saveTimeout}
LinterTimers == UNION {ValidationTimers(i) \cup SaveTimers(i) : i \in Instances}

\* C38: in the JSON linter every pending timeout is the validation timer or
\* the save timer of a mounted instance, at most one of each is pending, and
\* none is pending for an instance that was unmounted; when onBeforeUnmount
\* or the shutdown cleanup handlers have run, no timeout is pending at all.
C38_LinterTimersBounded ==
    /\ [](ui = "linter" =>
            /\ browser.activeTimeouts = LinterTimers
            /\ Cardinality(UNION {ValidationTimers(i) : i \in Instances}) <= 1
            /\ Cardinality(UNION {SaveTimers(i) : i \in Instances}) <= 1
            /\ \A i \in Instances :
                  comp.inst[i].st /= "mounted" => ValidationTimers(i) \cup SaveTimers(i) = {})
    /\ [][ui = "linter" =>
            /\ (\E i \in Instances : comp.inst[i].st = "mounted" /\ comp'.inst[i].st = "unmounted")
                  => browser'.activeTimeouts = {}
            /\ (FirstCleanup /\ sdk.cleanupHandlers /= <<>>) => browser'.activeTimeouts = {}]_vars

\* the first instance was unmounted while its validation timer and its save
\* timer were pending: both are cleared
C38_Witness ==
    /\ ui = "linter"
    /\ comp.inst[1].st = "unmounted"
    /\ comp.validationTimeout = 1 /\ comp.validationOwner = 1
    /\ comp.inst[1].saveTimeout = 2
    /\ browser.nextId = 3
    /\ browser.activeTimeouts = {}
    /\ comp.global.inputJSON = "notjson"

\* ---- claims about the responses (Spec)

\* an error text, written in pieces, is the empty string
EmptyText(e) == \A i \in 1..Len(e) : e[i] = ""
\* success is false exactly when there is an error text, and a failure
\* carries no result
WellFormed(r) ==
    /\ ~r.success <=> ~EmptyText(r.error)
    /\ ~r.success => r.result = NoResult

\* C39: every Response the server writes is well-formed: success is false
\* exactly when the error text is non-empty, and a Response with
\* success false carries no result.
C39_ResponsesWellFormed ==
    [][\A c \in Conns : Len(out'[c]) > Len(out[c]) => WellFormed(last'[c])]_vars

\* one connection was answered with an error and no result, the other with
\* success, a result and no error
C39_Witness ==
    /\ out["c1"] /= <<>> /\ out["c2"] /= <<>>
    /\ ~last["c1"].success /\ last["c1"].error = <<"github_token is required">>
    /\ last["c1"].result = NoResult
    /\ last["c2"].success /\ last["c2"].error = <<>>
    /\ last["c2"].result.kind = "info"

====
